---- MODULE Spec2Model ----
\* Model of the booking Lambda (src/lambdas/booking/handler.py): the ticket,
\* booking, cache, lock and queue state, and one action per external call
\* (store read/write, cache get/set/delete, lock, queue send) of each handler,
\* so that concurrent handler instances interleave exactly at those calls.
EXTENDS Integers, Sequences, FiniteSets, TLC

\* ------------------------------------------------------------------ bounds
\* Requests issued in one behaviour.
MaxRequests == 3
\* Requests issued in one behaviour of the single-user specifications.
DeepRequests == 4
\* Last instant of the clock (minutes).
MaxTime == 6

\* ------------------------------------------------------- program constants
RESERVATION_TIMEOUT_MINUTES == 5
MAX_TICKETS_PER_USER == 6
\* ttl = int(reserved_until.timestamp()) + 3600
RETENTION_SECONDS == 3600

\* --------------------------------------------------------------- universe
Procs == {"p1", "p2"}
Users == {"u1", "u2"}
Events == {"e1", "e2"}
Tickets == {"t1", "t2", "t3"}
\* Booking ids in the order uuid4 hands them out, and one id that is never
\* handed out: a client that names it names no booking.
NoSuchBooking == DeepRequests + 1
BookingIds == 1..NoSuchBooking
NoProc == "none"
NoUser == "none"
NoTime == <<>>
NoCount == <<>>
NoEvent == <<>>

\* A lock named after the user who asks for it.
lock_key_of_user(event_id, user_id) == user_id

\* One lock for all events.
lock_key_global(event_id, user_id) == "e1"

\* lock_key = f"booking_lock:{event_id}"
lock_key(event_id, user_id) == event_id

\* The names a lock can be given.
LockKeys == Events \cup Users

\* Seeded tickets: fixed attributes of each ticket record.
TicketEvent(t) == "e1"
TicketTier(t) == IF t = "t1" THEN "vip" ELSE "standard"
TicketPrice(t) == IF TicketTier(t) = "vip" THEN 3 ELSE 1

\* Request bodies: 'tickets' lists of (tier, quantity).
TicketRequests ==
    { << [tier |-> "standard", quantity |-> 1] >>,
      << [tier |-> "vip", quantity |-> 1], [tier |-> "standard", quantity |-> 2] >>,
      << [tier |-> "standard", quantity |-> 5] >> }

\* Instants the clock can show: the start, the reservation deadline of a
\* booking made at the start, and the minute after it.
ClockValues ==
    { v \in {0, RESERVATION_TIMEOUT_MINUTES, RESERVATION_TIMEOUT_MINUTES + 1} : v <= MaxTime }

\* datetime.isoformat() / datetime.fromisoformat(): minutes <-> (hours, minutes).
isoformat(m) == << m \div 60, m % 60 >>
fromisoformat(s) == s[1] * 60 + s[2]

\* ------------------------------------------------------------------ state
VARIABLES
    now,          \* datetime.utcnow(), in minutes
    events,       \* EVENTS_TABLE: event_id -> status
    tickets,      \* TICKETS_TABLE: ticket_id -> [status, reserved_by, reserved_until]
    bookings,     \* BOOKINGS_TABLE: booking_id -> booking item or NoBooking
    bookingCache, \* Redis "booking:<id>"
    countCache,   \* Redis "user_bookings_count:<user>"
    eventCache,   \* Redis "event:<id>"
    lock,         \* Redis "booking_lock:<event>": holder
    bookingQueue, \* BOOKING_QUEUE_URL
    paymentQueue, \* PAYMENT_QUEUE_URL
    proc,         \* the handler instances: position and locals
    issued,       \* requests issued so far
    staleAdmits   \* history: per user, the requests admitted on the current
                  \* cached count that the stored bookings would have rejected

vars == << now, events, tickets, bookings, bookingCache, countCache, eventCache,
           lock, bookingQueue, paymentQueue, proc, issued, staleAdmits >>

NoBooking ==
    [ booking_id |-> 0, user_id |-> NoUser, event_id |-> "none", tickets |-> <<>>,
      total_amount |-> 0, status |-> "none", reserved_until |-> NoTime, ttl |-> 0 ]

AvailableTicket == [ status |-> "available", reserved_by |-> NoUser, reserved_until |-> NoTime ]

Idle ==
    [ pc |-> "idle", op |-> "none", user |-> NoUser, event |-> "none", reqs |-> <<>>,
      bid |-> 0, count |-> 0, tierIdx |-> 0, i |-> 0, candidates |-> <<>>,
      reserved_tickets |-> <<>>, total_amount |-> 0, booking |-> NoBooking,
      ret |-> "none", newStatus |-> "none", err |-> "none",
      decimal |-> FALSE, outcome |-> "none" ]

Init ==
    /\ now = 0
    /\ events = [ e \in Events |-> IF e = "e1" THEN "active" ELSE "sold_out" ]
    /\ tickets = [ t \in Tickets |-> AvailableTicket ]
    /\ bookings = [ b \in BookingIds |-> NoBooking ]
    /\ bookingCache = [ b \in BookingIds |-> NoBooking ]
    /\ countCache = [ u \in Users |-> NoCount ]
    /\ eventCache = [ e \in Events |-> NoEvent ]
    /\ lock = [ k \in LockKeys |-> NoProc ]
    /\ bookingQueue = <<>>
    /\ paymentQueue = <<>>
    /\ proc = [ p \in Procs |-> Idle ]
    /\ issued = 0
    /\ staleAdmits = [ u \in Users |-> 0 ]

\* ---------------------------------------------------------------- helpers
Min(a, b) == IF a < b THEN a ELSE b

\* Index order of the ticket items (ticket_id ascending).
TicketOrder == << "t1", "t2", "t3" >>

ActiveStatuses == { "reserved", "processing", "confirmed" }

Set(p, rec) == proc' = [ proc EXCEPT ![p] = rec ]

\* A request is served by a handler instance that is not serving one; the
\* instances are alike, so it goes to the first of them.
ProcOrder == << "p1", "p2" >>
Idling(p) == proc[p].pc \in { "idle", "done" }
Free(p) ==
    /\ Idling(p)
    /\ \A k \in 1..Len(ProcOrder) :
          ProcOrder[k] = p \/ ~Idling(ProcOrder[k])
          \/ \E j \in 1..(k - 1) : ProcOrder[j] = p

\* The response is returned: the instance keeps no local of the request.
Finish(pr, outcome) ==
    [ Idle EXCEPT !.pc = "done", !.op = pr.op, !.outcome = outcome ]

\* One more request is issued, within the bound.
Issue(limit) ==
    /\ issued < limit
    /\ issued' = issued + 1

\* The booking ids a client may name: those of the bookings made so far, and
\* one that names no booking.
Targets == { b \in BookingIds : bookings[b] # NoBooking } \cup { NoSuchBooking }

\* sum(req['quantity'] for req in ticket_requests)
RECURSIVE TotalRequested(_)
TotalRequested(reqs) ==
    IF reqs = <<>> THEN 0 ELSE Head(reqs).quantity + TotalRequested(Tail(reqs))

\* The UserBookingsIndex query with Select='COUNT': the number of the user's
\* bookings (items, not tickets) whose status is reserved/processing/confirmed.
ActiveBookingsCount(u) ==
    Cardinality({ b \in BookingIds :
                    /\ bookings[b].user_id = u
                    /\ bookings[b].status \in ActiveStatuses })

\* A quota test that leaves out the bookings the user already has.
QuotaIgnoresActive(active_bookings, total_requested) ==
    total_requested > MAX_TICKETS_PER_USER

\* if active_bookings + total_requested > MAX_TICKETS_PER_USER
QuotaExceeded(active_bookings, total_requested) ==
    active_bookings + total_requested > MAX_TICKETS_PER_USER

\* The TicketStatusIndex query: Limit bounds the items the store evaluates
\* under the key condition (event_id, status = available); the tier filter is
\* applied to those items afterwards. The index does not order items that
\* share one key, so any Limit-sized set of them may be the one evaluated.
get_available_tickets(event_id, tier, quantity) ==
    LET avail == { t \in Tickets : TicketEvent(t) = event_id
                                   /\ tickets[t].status = "available" }
        limit == Min(quantity * 2, Cardinality(avail))
    IN  { SelectSeq(TicketOrder, LAMBDA t : t \in S /\ TicketTier(t) = tier) :
            S \in { X \in SUBSET avail : Cardinality(X) = limit } }

\* An update of the ticket with no condition on its status.
ReserveUnconditional(ticket) == TRUE

\* ConditionExpression='#status = :available'
ReserveCondition(ticket) == ticket.status = "available"

\* SET #status = :reserved, reserved_by = :user_id, reserved_until = :until
ReservedTicket(user_id) ==
    [ status |-> "reserved", reserved_by |-> user_id,
      reserved_until |-> isoformat(now + RESERVATION_TIMEOUT_MINUTES) ]

\* The dict appended to reserved_tickets (seat_number carries no behaviour).
Snapshot(ticket_id, tier) ==
    [ ticket_id |-> ticket_id, tier |-> tier, price |-> TicketPrice(ticket_id) ]

\* A rollback that writes every listed ticket back to available, whoever
\* holds it.
rollback_unconditional(reserved_tickets, user_id, tks) ==
    [ tickets |-> [ t \in Tickets |->
                      IF \E k \in 1..Len(reserved_tickets) : reserved_tickets[k].ticket_id = t
                      THEN AvailableTicket ELSE tks[t] ],
      raised |-> FALSE ]

\* rollback_reservations: for each dict of reserved_tickets, a conditional
\* write keyed by ticket['event_id'] and ticket['ticket_id']; a ClientError
\* (the failed condition included) is swallowed, a missing dict key is a
\* KeyError, which is not. Yields the ticket table and whether it raised.
RECURSIVE rollback_reservations(_, _, _)
rollback_reservations(reserved_tickets, user_id, tks) ==
    IF reserved_tickets = <<>> THEN [ tickets |-> tks, raised |-> FALSE ]
    ELSE LET ticket == Head(reserved_tickets) IN
         IF "event_id" \notin DOMAIN ticket
         THEN [ tickets |-> tks, raised |-> TRUE ]
         ELSE IF tks[ticket.ticket_id].reserved_by = user_id
              THEN rollback_reservations(Tail(reserved_tickets), user_id,
                       [ tks EXCEPT ![ticket.ticket_id] = AvailableTicket ])
              ELSE rollback_reservations(Tail(reserved_tickets), user_id, tks)

\* uuid.uuid4(): an identifier no booking has yet.
NewBookingId == CHOOSE b \in BookingIds : \A c \in BookingIds : c < b <=> bookings[c] # NoBooking

\* ---------------------------------------------------- reserve_tickets
\* POST /booking/reserve
StartReserve(p, u, e, reqs) ==
    /\ Free(p)
    /\ Set(p, [ Idle EXCEPT !.pc = "r_count", !.op = "reserve", !.user = u,
                            !.event = e, !.reqs = reqs ])
    /\ UNCHANGED << now, events, tickets, bookings, bookingCache, countCache,
                    eventCache, lock, bookingQueue, paymentQueue, staleAdmits >>

\* Lines 104-108, once get_user_active_bookings_count has returned count.
AfterCount(pr, count) ==
    IF QuotaExceeded(count, TotalRequested(pr.reqs))
    THEN Finish(pr, "quota_exceeded")
    ELSE [ pr EXCEPT !.count = 0, !.pc = "r_event" ]

\* History: a request of total_requested tickets is admitted on the cached
\* count, and the count of the stored bookings would have rejected it.
StaleAdmission(u, total_requested) ==
    /\ countCache[u] # NoCount
    /\ countCache[u][1] + total_requested <= MAX_TICKETS_PER_USER
    /\ ActiveBookingsCount(u) + total_requested > MAX_TICKETS_PER_USER

\* get_user_active_bookings_count: cache_utils.get
CountCacheGet(p) ==
    /\ proc[p].pc = "r_count"
    /\ IF countCache[proc[p].user] # NoCount
       THEN Set(p, AfterCount(proc[p], countCache[proc[p].user][1]))
       ELSE Set(p, [ proc[p] EXCEPT !.pc = "r_count_query" ])
    /\ staleAdmits' =
          IF StaleAdmission(proc[p].user, TotalRequested(proc[p].reqs))
          THEN [ staleAdmits EXCEPT ![proc[p].user] = @ + 1 ] ELSE staleAdmits
    /\ UNCHANGED << now, events, tickets, bookings, bookingCache, countCache,
                    eventCache, lock, bookingQueue, paymentQueue, issued >>

\* get_user_active_bookings_count: table.query(... Select='COUNT')
CountQuery(p) ==
    /\ proc[p].pc = "r_count_query"
    /\ Set(p, [ proc[p] EXCEPT !.pc = "r_count_set",
                               !.count = ActiveBookingsCount(proc[p].user) ])
    /\ UNCHANGED << now, events, tickets, bookings, bookingCache, countCache,
                    eventCache, lock, bookingQueue, paymentQueue, issued, staleAdmits >>

\* get_user_active_bookings_count: cache_utils.set(..., count, ttl=60)
CountCacheSet(p) ==
    /\ proc[p].pc = "r_count_set"
    /\ countCache' = [ countCache EXCEPT ![proc[p].user] = << proc[p].count >> ]
    /\ Set(p, AfterCount(proc[p], proc[p].count))
    /\ UNCHANGED << now, events, tickets, bookings, bookingCache,
                    eventCache, lock, bookingQueue, paymentQueue, issued >>
    /\ staleAdmits' = [ staleAdmits EXCEPT ![proc[p].user] = 0 ]

\* get_event and lines 111-113: the cached event if there is one, else the
\* stored one, which is then cached.
GetEvent(p) ==
    /\ proc[p].pc = "r_event"
    /\ LET e == proc[p].event
           hit == eventCache[e] # NoEvent
           status == IF hit THEN eventCache[e][1] ELSE events[e]
       IN  /\ eventCache' = IF hit THEN eventCache
                            ELSE [ eventCache EXCEPT ![e] = << status >> ]
           /\ IF status # "active"
              THEN Set(p, Finish(proc[p], "event_unavailable"))
              ELSE Set(p, [ proc[p] EXCEPT !.pc = "r_lock" ])
    /\ UNCHANGED << now, events, tickets, bookings, bookingCache, countCache,
                    lock, bookingQueue, paymentQueue, issued, staleAdmits >>

\* with cache_utils.distributed_lock(lock_key, timeout=30): entered
AcquireLock(p) ==
    /\ proc[p].pc = "r_lock"
    /\ lock[lock_key(proc[p].event, proc[p].user)] = NoProc
    /\ lock' = [ lock EXCEPT ![lock_key(proc[p].event, proc[p].user)] = p ]
    /\ Set(p, [ proc[p] EXCEPT !.pc = "r_query", !.tierIdx = 1 ])
    /\ UNCHANGED << now, events, tickets, bookings, bookingCache, countCache,
                    eventCache, bookingQueue, paymentQueue, issued, staleAdmits >>

\* A lock requested with no timeout: the caller waits until it is free.
WaitsUnbounded == FALSE

\* distributed_lock(lock_key, timeout=30): the wait for the lock is bounded.
WaitsBounded == TRUE

\* ... not entered: the lock stayed held for the whole acquisition timeout.
LockTimeout(p) ==
    /\ WaitsBounded
    /\ proc[p].pc = "r_lock"
    /\ lock[lock_key(proc[p].event, proc[p].user)] # NoProc
    /\ Set(p, Finish(proc[p], "lock_timeout"))
    /\ UNCHANGED << now, events, tickets, bookings, bookingCache, countCache,
                    eventCache, lock, bookingQueue, paymentQueue, issued, staleAdmits >>

\* The lease of a held lock runs out while its holder is still inside.
LeaseExpire(k) ==
    /\ lock[k] # NoProc
    /\ lock' = [ lock EXCEPT ![k] = NoProc ]
    /\ UNCHANGED << now, events, tickets, bookings, bookingCache, countCache,
                    eventCache, bookingQueue, paymentQueue, proc, issued, staleAdmits >>

\* A test that only an empty answer of the candidate query fails.
TooFewIfNone(available_tickets, quantity) == available_tickets = <<>>

\* if len(available_tickets) < quantity (line 131)
TooFew(available_tickets, quantity) == Len(available_tickets) < quantity

\* Lines 124-132: the candidate query of the current tier.
QueryTickets(p) ==
    /\ proc[p].pc = "r_query"
    /\ LET req == proc[p].reqs[proc[p].tierIdx] IN
       \E available_tickets \in get_available_tickets(proc[p].event, req.tier, req.quantity) :
          IF TooFew(available_tickets, req.quantity)
          THEN Set(p, [ proc[p] EXCEPT !.pc = "r_except", !.tierIdx = 0,
                                       !.err = "ticket_unavailable" ])
          ELSE Set(p, [ proc[p] EXCEPT !.pc = "r_write", !.i = 1,
                                       !.candidates = available_tickets ])
    /\ UNCHANGED << now, events, tickets, bookings, bookingCache, countCache,
                    eventCache, lock, bookingQueue, paymentQueue, issued, staleAdmits >>

\* Lines 135-155 and reserve_ticket_in_db: the conditional write of one ticket.
ReserveWrite(p) ==
    /\ proc[p].pc = "r_write"
    /\ LET pr == proc[p]
           req == pr.reqs[pr.tierIdx]
           ticket_id == pr.candidates[pr.i]
       IN  IF ReserveCondition(tickets[ticket_id])
           THEN /\ tickets' = [ tickets EXCEPT ![ticket_id] = ReservedTicket(pr.user) ]
                /\ LET got == [ pr EXCEPT
                                  !.reserved_tickets = Append(@, Snapshot(ticket_id, req.tier)),
                                  !.total_amount = @ + TicketPrice(ticket_id) ]
                   IN  IF pr.i < req.quantity
                       THEN Set(p, [ got EXCEPT !.i = pr.i + 1 ])
                       ELSE IF pr.tierIdx < Len(pr.reqs)
                            THEN Set(p, [ got EXCEPT !.pc = "r_query", !.i = 0,
                                                     !.candidates = <<>>,
                                                     !.tierIdx = pr.tierIdx + 1 ])
                            ELSE Set(p, [ got EXCEPT !.pc = "r_put", !.i = 0,
                                                     !.candidates = <<>>, !.tierIdx = 0 ])
           ELSE /\ tickets' = tickets
                /\ Set(p, [ pr EXCEPT !.pc = "r_rollback", !.i = 0, !.candidates = <<>>,
                                      !.tierIdx = 0, !.err = "ticket_unavailable" ])
    /\ UNCHANGED << now, events, bookings, bookingCache, countCache,
                    eventCache, lock, bookingQueue, paymentQueue, issued, staleAdmits >>

\* Line 154: rollback_reservations before the TicketNotAvailableError of line 155.
RollbackOnConflict(p) ==
    /\ proc[p].pc = "r_rollback"
    /\ LET r == rollback_reservations(proc[p].reserved_tickets, proc[p].user, tickets) IN
       /\ tickets' = r.tickets
       /\ Set(p, [ proc[p] EXCEPT !.pc = "r_except",
                                  !.err = IF r.raised THEN "internal_error" ELSE @ ])
    /\ UNCHANGED << now, events, bookings, bookingCache, countCache,
                    eventCache, lock, bookingQueue, paymentQueue, issued, staleAdmits >>

\* Lines 197-200: the handler of any exception raised in the try block.
RollbackOnException(p) ==
    /\ proc[p].pc = "r_except"
    /\ LET r == rollback_reservations(proc[p].reserved_tickets, proc[p].user, tickets) IN
       /\ tickets' = r.tickets
       /\ Set(p, [ proc[p] EXCEPT !.pc = "r_unlock",
                                  !.err = IF r.raised THEN "internal_error" ELSE @ ])
    /\ UNCHANGED << now, events, bookings, bookingCache, countCache,
                    eventCache, lock, bookingQueue, paymentQueue, issued, staleAdmits >>

\* Lines 157-172: the booking item.
NewBookingNoRetention(pr, booking_id) ==
    [ booking_id |-> booking_id, user_id |-> pr.user, event_id |-> pr.event,
      tickets |-> pr.reserved_tickets, total_amount |-> pr.total_amount,
      status |-> "reserved",
      reserved_until |-> isoformat(now + RESERVATION_TIMEOUT_MINUTES),
      ttl |-> (now + RESERVATION_TIMEOUT_MINUTES) * 60 ]

NewBooking(pr, booking_id) ==
    [ booking_id |-> booking_id, user_id |-> pr.user, event_id |-> pr.event,
      tickets |-> pr.reserved_tickets, total_amount |-> pr.total_amount,
      status |-> "reserved",
      reserved_until |-> isoformat(now + RESERVATION_TIMEOUT_MINUTES),
      ttl |-> (now + RESERVATION_TIMEOUT_MINUTES) * 60 + RETENTION_SECONDS ]

\* Lines 174-176: table.put_item(Item=booking)
PutBooking(p) ==
    /\ proc[p].pc = "r_put"
    /\ LET booking == NewBooking(proc[p], NewBookingId) IN
       /\ bookings' = [ bookings EXCEPT ![booking.booking_id] = booking ]
       /\ Set(p, [ proc[p] EXCEPT !.pc = "r_cache", !.bid = booking.booking_id,
                                  !.booking = booking, !.reserved_tickets = <<>>,
                                  !.total_amount = 0 ])
    /\ UNCHANGED << now, events, tickets, bookingCache, countCache,
                    eventCache, lock, bookingQueue, paymentQueue, issued, staleAdmits >>

\* Line 179: cache_utils.set(f"booking:{booking_id}", booking, ...)
CacheNewBooking(p) ==
    /\ proc[p].pc = "r_cache"
    /\ bookingCache' = [ bookingCache EXCEPT ![proc[p].bid] = proc[p].booking ]
    /\ Set(p, [ proc[p] EXCEPT !.pc = "r_send", !.booking = NoBooking ])
    /\ UNCHANGED << now, events, tickets, bookings, countCache,
                    eventCache, lock, bookingQueue, paymentQueue, issued, staleAdmits >>

\* Lines 181-186: send_to_queue(BOOKING_QUEUE_URL, ...)
SendReservation(p) ==
    /\ proc[p].pc = "r_send"
    /\ bookingQueue' = Append(bookingQueue,
           [ action |-> "process_reservation", booking_id |-> proc[p].bid,
             user_id |-> proc[p].user ])
    /\ Set(p, [ proc[p] EXCEPT !.pc = "r_unlock", !.err = "none" ])
    /\ UNCHANGED << now, events, tickets, bookings, bookingCache, countCache,
                    eventCache, lock, paymentQueue, issued, staleAdmits >>

\* A lock released only where the block is left by its return statement.
ReleasesOnReturnOnly(err) == err = "none"

\* with ...: the exit of the lock's context manager runs however the block
\* is left, by return or by an exception (err) passing through it.
ReleasesOnExit(err) == TRUE

\* cache_utils.distributed_lock, exit: the lock of key k is released if
\* instance p still holds it.
Unlocked(lk, k, p) == IF lk[k] = p THEN [ lk EXCEPT ![k] = NoProc ] ELSE lk

\* Leaving the with block, by return or by exception: the lock is released
\* and the response is produced.
ReleaseLock(p) ==
    /\ proc[p].pc = "r_unlock"
    /\ lock' = IF ReleasesOnExit(proc[p].err)
               THEN Unlocked(lock, lock_key(proc[p].event, proc[p].user), p) ELSE lock
    /\ Set(p, Finish(proc[p], IF proc[p].err = "none" THEN "created" ELSE proc[p].err))
    /\ UNCHANGED << now, events, tickets, bookings, bookingCache, countCache,
                    eventCache, bookingQueue, paymentQueue, issued, staleAdmits >>


\* ------------------------------------------------- booking lifecycle
\* A confirm_booking that does not look at reserved_until.
ExpiredNever(booking) == FALSE

\* if datetime.utcnow() > reserved_until (line 227)
Expired(booking) == now > fromisoformat(booking.reserved_until)

\* cancel_booking lines 272-282: the response that ends the request before
\* any cancellation, or "none".
CancelRejection(booking, user_id) ==
    IF booking = NoBooking THEN "not_found"
    ELSE IF booking.user_id # user_id THEN "unauthorized"
    ELSE IF booking.status \in { "cancelled", "expired" } THEN "already_cancelled"
    ELSE IF booking.status = "confirmed" THEN "cannot_cancel_confirmed"
    ELSE "none"

\* Guards of confirm_booking without the test of the status.
ConfirmRejectionAnyStatus(booking, user_id) ==
    IF booking = NoBooking THEN "not_found"
    ELSE IF booking.user_id # user_id THEN "unauthorized"
    ELSE "none"

\* confirm_booking lines 216-223: the BookingError raised, or "none".
ConfirmRejection(booking, user_id) ==
    IF booking = NoBooking THEN "not_found"
    ELSE IF booking.user_id # user_id THEN "unauthorized"
    ELSE IF booking.status # "reserved" THEN "invalid_status"
    ELSE "none"

\* A get_booking that does not compare the owner with the caller.
ReadResultAnyOwner(booking, user_id) ==
    IF booking = NoBooking THEN "not_found" ELSE "ok"

\* get_booking lines 257-263.
ReadResult(booking, user_id) ==
    IF booking = NoBooking THEN "not_found"
    ELSE IF booking.user_id # user_id THEN "unauthorized"
    ELSE "ok"

\* if booking and booking['status'] in ['reserved', 'processing'] (line 461)
Cacheable(booking) == booking # NoBooking /\ booking.status \in { "reserved", "processing" }

\* A release that sets the status and leaves reserved_by and reserved_until.
ReleasedKeepsHolder(ticket) == [ ticket EXCEPT !.status = "available" ]

\* release_ticket: SET #status = :available REMOVE reserved_by, reserved_until
ReleasedTicket(ticket) == AvailableTicket

\* An update that stores status confirmed whatever status it is given.
WithStatusConfirmed(booking, status) == [ booking EXCEPT !.status = "confirmed" ]

\* An update that replaces the item by one holding its key and the status.
WithStatusAlone(booking, status) ==
    [ NoBooking EXCEPT !.booking_id = booking.booking_id, !.status = status ]

\* update_booking_status: SET #status = :status (updated_at carries no behaviour)
WithStatus(booking, status) == [ booking EXCEPT !.status = status ]

\* Entering get_booking_by_id, to continue at ret when it returns.
CallGet(pr, ret) == [ pr EXCEPT !.pc = "g_cache", !.ret = ret ]

\* Entering update_booking_status(booking_id, status).
CallUpdate(pr, status) == [ pr EXCEPT !.pc = "u_write", !.newStatus = status ]

\* cancel_booking_internal has returned to its caller: cancel_booking answers
\* 200, confirm_booking raises "Reservation has expired".
AfterCancelInternal(pr) ==
    Finish(pr, IF pr.op = "cancel" THEN "cancelled" ELSE "reservation_expired")

\* cancel_booking_internal lines 492-501, once its booking is loaded.
AfterInternalGet(pr) ==
    IF pr.booking = NoBooking THEN AfterCancelInternal(pr)
    ELSE IF pr.booking.tickets = <<>> THEN CallUpdate(pr, "cancelled")
    ELSE [ pr EXCEPT !.pc = "ci_release", !.i = 1 ]

\* update_booking_status has returned to its caller.
AfterUpdate(pr) ==
    IF pr.newStatus = "cancelled" THEN [ pr EXCEPT !.pc = "ci_del" ]
    ELSE [ pr EXCEPT !.pc = "f_send" ]

\* The code that follows a call of get_booking_by_id, up to the caller's next
\* external call; pr.booking is what the call returned.
AfterGet(pr) ==
    CASE pr.ret = "c_check" ->
            IF CancelRejection(pr.booking, pr.user) # "none"
            THEN Finish(pr, CancelRejection(pr.booking, pr.user))
            ELSE CallGet(pr, "ci_loaded")
      [] pr.ret = "f_check" ->
            IF ConfirmRejection(pr.booking, pr.user) # "none"
            THEN Finish(pr, ConfirmRejection(pr.booking, pr.user))
            ELSE IF Expired(pr.booking)
                 THEN CallGet(pr, "ci_loaded")
                 ELSE CallUpdate(pr, "processing")
      [] pr.ret = "ci_loaded" -> AfterInternalGet(pr)
      [] pr.ret = "u_loaded" ->
            IF pr.booking # NoBooking THEN [ pr EXCEPT !.pc = "u_cache" ]
            ELSE AfterUpdate(pr)
      [] pr.ret = "read" -> Finish(pr, ReadResult(pr.booking, pr.user))

\* get_booking_by_id: cache_utils.get
BookingCacheGet(p) ==
    /\ proc[p].pc = "g_cache"
    /\ IF bookingCache[proc[p].bid] # NoBooking
       THEN Set(p, AfterGet([ proc[p] EXCEPT !.booking = bookingCache[proc[p].bid] ]))
       ELSE Set(p, [ proc[p] EXCEPT !.pc = "g_db" ])
    /\ UNCHANGED << now, events, tickets, bookings, bookingCache, countCache,
                    eventCache, lock, bookingQueue, paymentQueue, issued, staleAdmits >>

\* get_booking_by_id: table.get_item. The numbers of an item read from the
\* table are Decimal objects; decimal records that the booking confirm_booking
\* holds (line 214) was read this way, and not decoded from the cache.
BookingDbGet(p) ==
    /\ proc[p].pc = "g_db"
    /\ LET pr == [ proc[p] EXCEPT !.booking = bookings[proc[p].bid],
                                  !.decimal = ( @ \/ proc[p].ret = "f_check" ) ] IN
       IF Cacheable(pr.booking)
       THEN Set(p, [ pr EXCEPT !.pc = "g_set" ])
       ELSE Set(p, AfterGet(pr))
    /\ UNCHANGED << now, events, tickets, bookings, bookingCache, countCache,
                    eventCache, lock, bookingQueue, paymentQueue, issued, staleAdmits >>

\* get_booking_by_id: cache_utils.set(f"booking:{booking_id}", booking, ttl=300)
BookingCacheSet(p) ==
    /\ proc[p].pc = "g_set"
    /\ bookingCache' = [ bookingCache EXCEPT ![proc[p].bid] = proc[p].booking ]
    /\ Set(p, AfterGet(proc[p]))
    /\ UNCHANGED << now, events, tickets, bookings, countCache,
                    eventCache, lock, bookingQueue, paymentQueue, issued, staleAdmits >>

\* DELETE /booking/{booking_id}
StartCancel(p, u, b) ==
    /\ Free(p)
    /\ Set(p, CallGet([ Idle EXCEPT !.op = "cancel", !.user = u, !.bid = b ], "c_check"))
    /\ UNCHANGED << now, events, tickets, bookings, bookingCache, countCache,
                    eventCache, lock, bookingQueue, paymentQueue, staleAdmits >>

\* POST /booking/confirm
StartConfirm(p, u, b) ==
    /\ Free(p)
    /\ Set(p, CallGet([ Idle EXCEPT !.op = "confirm", !.user = u, !.bid = b ], "f_check"))
    /\ UNCHANGED << now, events, tickets, bookings, bookingCache, countCache,
                    eventCache, lock, bookingQueue, paymentQueue, staleAdmits >>

\* GET /booking/{booking_id}
StartRead(p, u, b) ==
    /\ Free(p)
    /\ Set(p, CallGet([ Idle EXCEPT !.op = "read", !.user = u, !.bid = b ], "read"))
    /\ UNCHANGED << now, events, tickets, bookings, bookingCache, countCache,
                    eventCache, lock, bookingQueue, paymentQueue, staleAdmits >>

\* cancel_booking_internal lines 497-498: release_ticket of the next ticket.
ReleaseTicket(p) ==
    /\ proc[p].pc = "ci_release"
    /\ LET pr == proc[p]
           ticket_id == pr.booking.tickets[pr.i].ticket_id
       IN  /\ tickets' = [ tickets EXCEPT ![ticket_id] = ReleasedTicket(@) ]
           /\ IF pr.i < Len(pr.booking.tickets)
              THEN Set(p, [ pr EXCEPT !.i = pr.i + 1 ])
              ELSE Set(p, CallUpdate([ pr EXCEPT !.i = 0 ], "cancelled"))
    /\ UNCHANGED << now, events, bookings, bookingCache, countCache,
                    eventCache, lock, bookingQueue, paymentQueue, issued, staleAdmits >>

\* update_booking_status lines 471-480: table.update_item, with no condition.
UpdateStatusWrite(p) ==
    /\ proc[p].pc = "u_write"
    /\ bookings' = [ bookings EXCEPT ![proc[p].bid] = WithStatus(@, proc[p].newStatus) ]
    /\ Set(p, CallGet(proc[p], "u_loaded"))
    /\ UNCHANGED << now, events, tickets, bookingCache, countCache,
                    eventCache, lock, bookingQueue, paymentQueue, issued, staleAdmits >>

\* update_booking_status lines 484-487: the reloaded booking, with the new
\* status, is written to the cache.
UpdateStatusCache(p) ==
    /\ proc[p].pc = "u_cache"
    /\ bookingCache' = [ bookingCache EXCEPT
                           ![proc[p].bid] = WithStatus(proc[p].booking, proc[p].newStatus) ]
    /\ Set(p, AfterUpdate(proc[p]))
    /\ UNCHANGED << now, events, tickets, bookings, countCache,
                    eventCache, lock, bookingQueue, paymentQueue, issued, staleAdmits >>

\* cancel_booking_internal line 504: cache_utils.delete(f"booking:{booking_id}")
DeleteBookingCache(p) ==
    /\ proc[p].pc = "ci_del"
    /\ bookingCache' = [ bookingCache EXCEPT ![proc[p].bid] = NoBooking ]
    /\ Set(p, [ proc[p] EXCEPT !.pc = "ci_delcount" ])
    /\ UNCHANGED << now, events, tickets, bookings, countCache,
                    eventCache, lock, bookingQueue, paymentQueue, issued, staleAdmits >>

\* cancel_booking_internal line 505: cache_utils.delete(f"user_bookings_count:...")
DeleteCountCache(p) ==
    /\ proc[p].pc = "ci_delcount"
    /\ countCache' = [ countCache EXCEPT ![proc[p].booking.user_id] = NoCount ]
    /\ Set(p, AfterCancelInternal(proc[p]))
    /\ UNCHANGED << now, events, tickets, bookings, bookingCache,
                    eventCache, lock, bookingQueue, paymentQueue, issued >>
    /\ staleAdmits' = [ staleAdmits EXCEPT ![proc[p].booking.user_id] = 0 ]

\* json.dumps(message) in send_to_queue (line 527), with no default: it
\* encodes the amount unless the amount is a Decimal.
Serializable(is_decimal) == ~is_decimal

\* confirm_booking lines 235-248: send_to_queue(PAYMENT_QUEUE_URL, ...)
SendPayment(p) ==
    /\ proc[p].pc = "f_send"
    /\ Serializable(proc[p].decimal)
    /\ paymentQueue' = Append(paymentQueue,
           [ action |-> "process_payment", booking_id |-> proc[p].bid,
             user_id |-> proc[p].user, amount |-> proc[p].booking.total_amount ])
    /\ Set(p, Finish(proc[p], "processing"))
    /\ UNCHANGED << now, events, tickets, bookings, bookingCache, countCache,
                    eventCache, lock, bookingQueue, issued, staleAdmits >>

\* confirm_booking lines 235-241 and send_to_queue line 527: the amount is
\* a Decimal, json.dumps raises TypeError, which send_to_queue's
\* 'except ClientError' does not catch.
SendPaymentRaises(p) ==
    /\ proc[p].pc = "f_send"
    /\ ~Serializable(proc[p].decimal)
    /\ Set(p, Finish(proc[p], "internal_error"))
    /\ UNCHANGED << now, events, tickets, bookings, bookingCache, countCache,
                    eventCache, lock, bookingQueue, paymentQueue, issued, staleAdmits >>

\* ------------------------------------------------------------ faults
\* Line 176 raises: table.put_item fails with a ClientError, which the
\* except block of lines 197-200 handles.
PutBookingFails(p) ==
    /\ proc[p].pc = "r_put"
    /\ Set(p, [ proc[p] EXCEPT !.pc = "r_except", !.err = "store_error" ])
    /\ UNCHANGED << now, events, tickets, bookings, bookingCache, countCache,
                    eventCache, lock, bookingQueue, paymentQueue, issued, staleAdmits >>

\* send_to_queue lines 524-536: sqs.send_message fails with a ClientError,
\* which is printed and not raised; no message is queued.
SendReservationFails(p) ==
    /\ proc[p].pc = "r_send"
    /\ Set(p, [ proc[p] EXCEPT !.pc = "r_unlock", !.err = "none" ])
    /\ UNCHANGED << now, events, tickets, bookings, bookingCache, countCache,
                    eventCache, lock, bookingQueue, paymentQueue, issued, staleAdmits >>

SendPaymentFails(p) ==
    /\ proc[p].pc = "f_send"
    /\ Serializable(proc[p].decimal)
    /\ Set(p, Finish(proc[p], "processing"))
    /\ UNCHANGED << now, events, tickets, bookings, bookingCache, countCache,
                    eventCache, lock, bookingQueue, paymentQueue, issued, staleAdmits >>

\* ------------------------------------------------- handler boundary
\* The exception a request that ends with this outcome has raised, or
\* "none" where the handler returns its response itself (lines 108, 113,
\* 132, 155, 217-230 raise; get_booking and cancel_booking return).
Raised(op, outcome) ==
    IF op = "reserve" /\ outcome \in { "quota_exceeded", "event_unavailable" }
    THEN "BookingError"
    ELSE IF op = "reserve" /\ outcome = "ticket_unavailable" THEN "TicketNotAvailableError"
    ELSE IF op = "reserve" /\ outcome \in { "internal_error", "lock_timeout", "store_error" }
         THEN "Exception"
    ELSE IF op = "confirm" /\ outcome = "internal_error" THEN "Exception"
    ELSE IF op = "confirm" /\ outcome # "processing" THEN "BookingError"
    ELSE "none"

\* lambda_handler lines 82-90: the status code given to an exception.
StatusOfError(exception) ==
    IF exception \in { "BookingError", "TicketNotAvailableError" } THEN 409
    ELSE 500

\* The statusCode of the response to a request that ends with this outcome.
StatusCode(op, outcome) ==
    IF Raised(op, outcome) # "none" THEN StatusOfError(Raised(op, outcome))
    ELSE IF outcome = "created" THEN 201
    ELSE IF outcome = "not_found" THEN 404
    ELSE IF outcome \in { "unauthorized" } THEN 403
    ELSE IF outcome \in { "already_cancelled", "cannot_cancel_confirmed" } THEN 409
    ELSE 200

\* ------------------------------------------------------- environment
\* Time passes.
Tick ==
    /\ \E v \in ClockValues : v > now /\ now' = v
    /\ UNCHANGED << events, tickets, bookings, bookingCache, countCache, eventCache,
                    lock, bookingQueue, paymentQueue, proc, issued, staleAdmits >>

\* The payment processor completes a payment: processing -> confirmed.
PaymentCompletes(b) ==
    /\ bookings[b].status = "processing"
    /\ bookings' = [ bookings EXCEPT ![b] = WithStatus(@, "confirmed") ]
    /\ bookingCache' = [ bookingCache EXCEPT ![b] = NoBooking ]
    /\ UNCHANGED << now, events, tickets, countCache, eventCache,
                    lock, bookingQueue, paymentQueue, proc, issued, staleAdmits >>

\* A cache entry reaches its time-to-live.
ExpireBookingCache(b) ==
    /\ bookingCache[b] # NoBooking
    /\ bookingCache' = [ bookingCache EXCEPT ![b] = NoBooking ]
    /\ UNCHANGED << now, events, tickets, bookings, countCache, eventCache,
                    lock, bookingQueue, paymentQueue, proc, issued, staleAdmits >>

ExpireCountCache(u) ==
    /\ countCache[u] # NoCount
    /\ countCache' = [ countCache EXCEPT ![u] = NoCount ]
    /\ UNCHANGED << now, events, tickets, bookings, bookingCache, eventCache,
                    lock, bookingQueue, paymentQueue, proc, issued >>
    /\ staleAdmits' = [ staleAdmits EXCEPT ![u] = 0 ]

\* ------------------------------------------------------ specification
\* The calls of reserve_tickets, and those of the booking lifecycle.
ReserveStep(p) ==
    \/ CountCacheGet(p) \/ CountQuery(p) \/ CountCacheSet(p) \/ GetEvent(p)
    \/ AcquireLock(p) \/ LockTimeout(p) \/ QueryTickets(p) \/ ReserveWrite(p)
    \/ RollbackOnConflict(p) \/ RollbackOnException(p)
    \/ PutBooking(p) \/ CacheNewBooking(p) \/ SendReservation(p) \/ ReleaseLock(p)

LifecycleStep(p) ==
    \/ BookingCacheGet(p) \/ BookingDbGet(p) \/ BookingCacheSet(p)
    \/ ReleaseTicket(p) \/ UpdateStatusWrite(p) \/ UpdateStatusCache(p)
    \/ DeleteBookingCache(p) \/ DeleteCountCache(p) \/ SendPayment(p)
    \/ SendPaymentRaises(p)

\* The users are alike until one of them has sent a request.
Callers == IF issued = 0 THEN { "u1" } ELSE Users

\* Spec: reserve, confirm and cancel requests of two users on one event,
\* interleaved at every external call, while time passes, cache entries and
\* lock leases run out and payments complete.
LifecycleRequests == { << [tier |-> "standard", quantity |-> 2] >> }

Request(p) ==
    /\ Issue(MaxRequests)
    /\ \E u \in Callers :
          \/ \E reqs \in LifecycleRequests : StartReserve(p, u, "e1", reqs)
          \/ \E b \in Targets : StartCancel(p, u, b) \/ StartConfirm(p, u, b)

Next ==
    \/ \E p \in Procs : Request(p) \/ ReserveStep(p) \/ LifecycleStep(p)
    \/ \E k \in LockKeys : LeaseExpire(k)
    \/ \E b \in BookingIds : PaymentCompletes(b) \/ ExpireBookingCache(b)
    \/ Tick

Spec == Init /\ [][Next]_vars

\* SpecReserve: reservation requests alone, of every shape, on both events.
ReserveRequest(p) ==
    /\ Issue(MaxRequests)
    /\ \E u \in Callers, e \in Events, reqs \in TicketRequests : StartReserve(p, u, e, reqs)

NextReserve ==
    \/ \E p \in Procs : ReserveRequest(p) \/ ReserveStep(p)
    \/ \E k \in LockKeys : LeaseExpire(k)
    \/ \E u \in Users : ExpireCountCache(u)

SpecReserve == Init /\ [][NextReserve]_vars

\* SpecSeq: requests of every operation served one at a time, each run to
\* completion before the next is issued.
Quiescent == \A p \in Procs : Idling(p)

SeqRequest(p) ==
    /\ Quiescent
    /\ Issue(MaxRequests)
    /\ \E u \in Callers :
          \/ \E e \in Events, reqs \in TicketRequests : StartReserve(p, u, e, reqs)
          \/ \E b \in Targets :
                StartCancel(p, u, b) \/ StartConfirm(p, u, b) \/ StartRead(p, u, b)

SeqReserveStep(p) ==
    \/ CountCacheGet(p) \/ CountQuery(p) \/ CountCacheSet(p) \/ GetEvent(p)
    \/ AcquireLock(p) \/ QueryTickets(p) \/ ReserveWrite(p) \/ RollbackOnException(p)
    \/ PutBooking(p) \/ CacheNewBooking(p) \/ SendReservation(p) \/ ReleaseLock(p)

NextSeq ==
    \/ \E p \in Procs : SeqRequest(p) \/ SeqReserveStep(p) \/ LifecycleStep(p)
    \/ \E b \in BookingIds : PaymentCompletes(b) \/ ExpireBookingCache(b)
    \/ \E u \in Users : ExpireCountCache(u)
    \/ Tick

SpecSeq == Init /\ [][NextSeq]_vars

\* SpecDeep: longer behaviours of the reserve, confirm and cancel requests
\* of one user, interleaved at every external call.
DeepRequest(p) ==
    /\ Issue(DeepRequests)
    /\ \/ \E reqs \in LifecycleRequests : StartReserve(p, "u1", "e1", reqs)
       \/ \E b \in Targets : StartCancel(p, "u1", b) \/ StartConfirm(p, "u1", b)

NextDeep ==
    \/ \E p \in Procs : DeepRequest(p) \/ ReserveStep(p) \/ LifecycleStep(p)
    \/ \E k \in LockKeys : LeaseExpire(k)

SpecDeep == Init /\ [][NextDeep]_vars

\* SpecQuota: longer behaviours of the reservation requests of one user.
QuotaRequests ==
    { << [tier |-> "standard", quantity |-> 1] >>,
      << [tier |-> "standard", quantity |-> 5] >> }

QuotaRequest(p) ==
    /\ Issue(DeepRequests)
    /\ \E reqs \in QuotaRequests : StartReserve(p, "u1", "e1", reqs)

NextQuota ==
    \/ \E p \in Procs : QuotaRequest(p) \/ ReserveStep(p)
    \/ \E k \in LockKeys : LeaseExpire(k)
    \/ \E u \in Users : ExpireCountCache(u)

SpecQuota == Init /\ [][NextQuota]_vars

\* SpecRead: the reserve, cancel and read requests of one user, interleaved
\* at every external call, with cache entries reaching their time-to-live.
ReadRequest(p) ==
    /\ Issue(DeepRequests)
    /\ \/ \E reqs \in LifecycleRequests : StartReserve(p, "u1", "e1", reqs)
       \/ \E b \in Targets : StartCancel(p, "u1", b) \/ StartRead(p, "u1", b)

CancelReadStep(p) ==
    \/ BookingCacheGet(p) \/ BookingDbGet(p) \/ BookingCacheSet(p)
    \/ ReleaseTicket(p) \/ UpdateStatusWrite(p) \/ UpdateStatusCache(p)
    \/ DeleteBookingCache(p) \/ DeleteCountCache(p)

NextRead ==
    \/ \E p \in Procs : ReadRequest(p) \/ ReserveStep(p) \/ CancelReadStep(p)
    \/ \E k \in LockKeys : LeaseExpire(k)
    \/ \E b \in BookingIds : ExpireBookingCache(b)

SpecRead == Init /\ [][NextRead]_vars


\* SpecLease: reservation requests of every shape while no lease of the
\* lock runs out before its holder leaves.
NextLease ==
    \/ \E p \in Procs : ReserveRequest(p) \/ SeqReserveStep(p) \/ LockTimeout(p)
    \/ \E u \in Users : ExpireCountCache(u)

SpecLease == Init /\ [][NextLease]_vars

\* SpecWait: reservation requests where the second handler instance, the one that
\* serves a request arriving while another is being served, keeps running;
\* nothing is assumed of the speed of the first, which may hold the lock for
\* ever.
NextWait ==
    \/ \E p \in Procs : ReserveRequest(p) \/ ReserveStep(p)
    \/ \E k \in LockKeys : LeaseExpire(k)

SpecWait == Init /\ [][NextWait]_vars /\ WF_vars(ReserveStep("p2"))

\* SpecRace: every user sends one request for one vip ticket, each while the
\* requests sent before are still being served; the lock is never held as
\* long as the acquisition timeout, and its lease may run out.
RaceRequests == { << [tier |-> "vip", quantity |-> 1] >> }

RaceRequest(p) ==
    /\ \A q \in Procs : proc[q].pc # "done"
    /\ Issue(Cardinality(Users))
    /\ \E reqs \in RaceRequests :
          StartReserve(p, IF issued = 0 THEN "u1" ELSE "u2", "e1", reqs)

NextRace ==
    \/ \E p \in Procs : RaceRequest(p) \/ SeqReserveStep(p) \/ RollbackOnConflict(p)
    \/ \E k \in LockKeys : LeaseExpire(k)

SpecRace == Init /\ [][NextRace]_vars

\* SpecSerial: reserve, confirm, cancel and read requests served one at a
\* time, with nothing but these requests writing to the store.
NextSerial ==
    \/ \E p \in Procs : SeqRequest(p) \/ SeqReserveStep(p) \/ LifecycleStep(p)
    \/ \E b \in BookingIds : ExpireBookingCache(b)
    \/ \E u \in Users : ExpireCountCache(u)
    \/ Tick

SpecSerial == Init /\ [][NextSerial]_vars

\* SpecCount: the reserve and cancel requests of one user, interleaved at
\* every external call, with the cached count reaching its time-to-live and
\* no lease of the lock running out.
CountRequest(p) ==
    /\ Issue(DeepRequests)
    /\ \/ \E reqs \in LifecycleRequests : StartReserve(p, "u1", "e1", reqs)
       \/ \E b \in Targets : StartCancel(p, "u1", b)

NextCount ==
    \/ \E p \in Procs : CountRequest(p) \/ SeqReserveStep(p) \/ LockTimeout(p)
                            \/ CancelReadStep(p)
    \/ \E u \in Users : ExpireCountCache(u)

SpecCount == Init /\ [][NextCount]_vars

\* Bookings made in one behaviour of SpecOrphan.
OrphanBookings == 2

\* SpecOrphan: one user's reserve, confirm and cancel requests, served one
\* at a time and for ever: the handler instances keep running, the clock
\* keeps advancing to its last instant, and another request is sent
\* whenever none is being served.
OrphanRequests ==
    { << [tier |-> "standard", quantity |-> 1] >>,
      << [tier |-> "vip", quantity |-> 1], [tier |-> "standard", quantity |-> 2] >> }

OrphanRequest(p) ==
    /\ Quiescent
    /\ issued' = issued
    /\ \/ /\ Cardinality({ b \in BookingIds : bookings[b] # NoBooking }) < OrphanBookings
          /\ \E reqs \in OrphanRequests : StartReserve(p, "u1", "e1", reqs)
       \/ \E b \in Targets : StartCancel(p, "u1", b) \/ StartConfirm(p, "u1", b)

NextOrphan ==
    \/ \E p \in Procs : OrphanRequest(p) \/ SeqReserveStep(p) \/ LifecycleStep(p)
    \/ \E b \in BookingIds : ExpireBookingCache(b)
    \/ Tick

SpecOrphan == Init /\ [][NextOrphan]_vars /\ WF_vars(NextOrphan)

\* SpecIsolation: the first user reserves, the second reserves after that,
\* and either of them cancels, all interleaved at every external call, with
\* no lease of the lock running out.
IsolationRequest(p) ==
    /\ Issue(DeepRequests)
    /\ \/ \E reqs \in LifecycleRequests :
             StartReserve(p, IF issued = 0 THEN "u1" ELSE "u2", "e1", reqs)
       \/ \E u \in Users, b \in Targets : StartCancel(p, u, b)

NextIsolation ==
    \E p \in Procs : IsolationRequest(p) \/ SeqReserveStep(p) \/ LockTimeout(p)
                        \/ CancelReadStep(p)

SpecIsolation == Init /\ [][NextIsolation]_vars

\* SpecFault: one user's requests of every operation, served one at a time,
\* where the write of the booking and the sends to the queues may fail.
FaultRequest(p) ==
    /\ Quiescent
    /\ Issue(MaxRequests)
    /\ \/ \E reqs \in TicketRequests : StartReserve(p, "u1", "e1", reqs)
       \/ \E b \in Targets : StartCancel(p, "u1", b) \/ StartConfirm(p, "u1", b)

NextFault ==
    \/ \E p \in Procs : \/ FaultRequest(p) \/ SeqReserveStep(p) \/ LifecycleStep(p)
                        \/ PutBookingFails(p) \/ SendReservationFails(p)
                        \/ SendPaymentFails(p)
    \/ \E b \in BookingIds : ExpireBookingCache(b)
    \/ Tick

SpecFault == Init /\ [][NextFault]_vars

\* SpecEvents: two active events, the second with no ticket left; reserve
\* requests of both users on both events and cancel requests of the first
\* user, interleaved at every external call, with no lease of the lock
\* running out.
InitEvents ==
    /\ now = 0
    /\ events = [ e \in Events |-> "active" ]
    /\ tickets = [ t \in Tickets |-> AvailableTicket ]
    /\ bookings = [ b \in BookingIds |-> NoBooking ]
    /\ bookingCache = [ b \in BookingIds |-> NoBooking ]
    /\ countCache = [ u \in Users |-> NoCount ]
    /\ eventCache = [ e \in Events |-> NoEvent ]
    /\ lock = [ k \in LockKeys |-> NoProc ]
    /\ bookingQueue = <<>>
    /\ paymentQueue = <<>>
    /\ proc = [ p \in Procs |-> Idle ]
    /\ issued = 0
    /\ staleAdmits = [ u \in Users |-> 0 ]

EventsRequest(p) ==
    /\ Issue(MaxRequests)
    /\ \/ \E u \in Callers, e \in Events :
             StartReserve(p, u, e, << [tier |-> "standard", quantity |-> 1] >>)
       \/ \E b \in Targets : StartCancel(p, "u1", b)

NextEvents ==
    \E p \in Procs : EventsRequest(p) \/ SeqReserveStep(p) \/ LockTimeout(p)
                        \/ CancelReadStep(p)

SpecEvents == InitEvents /\ [][NextEvents]_vars

\* SpecRollback: rollback_reservations applied, by the two places that call
\* it, to every list of up to two snapshots, for either user, on every
\* ticket table in which each ticket is available or reserved by a user.
TicketRecords ==
    { AvailableTicket } \cup
    { [ status |-> "reserved", reserved_by |-> u,
        reserved_until |-> isoformat(RESERVATION_TIMEOUT_MINUTES) ] : u \in Users }

SnapshotLists ==
    { <<>> } \cup { << Snapshot(t, TicketTier(t)) >> : t \in Tickets }
    \cup { << Snapshot(tv[1], TicketTier(tv[1])), Snapshot(tv[2], TicketTier(tv[2])) >> :
             tv \in { pair \in Tickets \X Tickets : pair[1] # pair[2] } }

InitRollback ==
    /\ now = 0
    /\ events = [ e \in Events |-> IF e = "e1" THEN "active" ELSE "sold_out" ]
    /\ tickets \in [ Tickets -> TicketRecords ]
    /\ bookings = [ b \in BookingIds |-> NoBooking ]
    /\ bookingCache = [ b \in BookingIds |-> NoBooking ]
    /\ countCache = [ u \in Users |-> NoCount ]
    /\ eventCache = [ e \in Events |-> NoEvent ]
    /\ lock = [ k \in LockKeys |-> NoProc ]
    /\ bookingQueue = <<>>
    /\ paymentQueue = <<>>
    /\ issued = 1
    /\ staleAdmits = [ u \in Users |-> 0 ]
    /\ \E u \in Users, list \in SnapshotLists, pc \in { "r_rollback", "r_except" } :
          proc = [ q \in Procs |->
                     IF q = "p1"
                     THEN [ Idle EXCEPT !.pc = pc, !.op = "reserve", !.user = u,
                                        !.event = "e1", !.err = "ticket_unavailable",
                                        !.reqs = << [tier |-> "standard", quantity |-> 1] >>,
                                        !.reserved_tickets = list ]
                     ELSE Idle ]

NextRollback ==
    \E p \in Procs : RollbackOnConflict(p) \/ RollbackOnException(p) \/ ReleaseLock(p)

SpecRollback == InitRollback /\ [][NextRollback]_vars

\* ------------------------------------------------------------- claims
\* The instance p takes this step.
Acted(p) == proc'[p] # proc[p]

TicketIds(snapshots) == { snapshots[k].ticket_id : k \in 1..Len(snapshots) }

\* The tickets a request has reserved so far, and those a booking lists.
HeldByRequest(p) == TicketIds(proc[p].reserved_tickets)
HeldByBooking(b) == TicketIds(bookings[b].tickets)

\* C1: of the reservation requests racing on one available ticket at most
\* one wins the conditional write, also when the lock lease has run out and
\* several requests are in the critical section: no ticket is held by two
\* requests, or by a request and a booking, and the stored ticket names the
\* winner.
C1_AtMostOneWinner ==
    \A t \in Tickets :
        /\ Cardinality({ p \in Procs : t \in HeldByRequest(p) })
             + Cardinality({ b \in BookingIds : t \in HeldByBooking(b) }) <= 1
        /\ \A p \in Procs : t \in HeldByRequest(p) =>
              /\ tickets[t].status = "reserved"
              /\ tickets[t].reserved_by = proc[p].user

\* C1 witness: a request has lost the conditional write while another
\* request, in the critical section with it, holds a ticket.
C1_RaceLost ==
    \E p, q \in Procs :
        /\ p # q
        /\ proc[p].pc = "r_rollback"
        /\ proc[q].pc \in { "r_query", "r_write", "r_put" }
        /\ proc[q].reserved_tickets # <<>>

\* C3: a reservation request that fails after reserving tickets of an
\* earlier tier leaves none of the tickets it reserved in status reserved
\* when it returns.
C3_FailedRequestHoldsNothing ==
    \A p \in Procs :
        (proc[p].pc = "r_unlock" /\ proc[p].err # "none") =>
            \A t \in HeldByRequest(p) : tickets[t].status = "available"

\* C4 witness: a reservation request has been rejected on the quota.
C4_QuotaRejected ==
    \E p \in Procs : proc[p].pc = "done" /\ proc[p].outcome = "quota_exceeded"

\* The count get_user_active_bookings_count returns in this step of p, as a
\* one-element tuple, or the empty tuple if it does not return in this step.
EnforcerReturns(p) ==
    IF proc[p].pc = "r_count" /\ countCache[proc[p].user] # NoCount
    THEN countCache[proc[p].user]
    ELSE IF proc[p].pc = "r_count_set" THEN << proc[p].count >> ELSE <<>>

\* C4: the quota check of a reservation request changes no ticket, no
\* booking, no queue and no lock, and a request whose quantity plus the
\* count the enforcer returns exceeds 6 ends there, with quota-exceeded.
C4_QuotaRejectsBeforeMutation ==
    [][ \A p \in Procs :
          (Acted(p) /\ proc[p].pc \in { "r_count", "r_count_query", "r_count_set" }) =>
             /\ tickets' = tickets /\ bookings' = bookings /\ lock' = lock
             /\ bookingQueue' = bookingQueue /\ paymentQueue' = paymentQueue
             /\ ( /\ EnforcerReturns(p) # <<>>
                  /\ EnforcerReturns(p)[1] + TotalRequested(proc[p].reqs) > 6 )
                => proc'[p].pc = "done" /\ proc'[p].outcome = "quota_exceeded" ]_vars

\* The tickets listed in the active bookings of user u.
RECURSIVE TicketsHeldUpTo(_, _)
TicketsHeldUpTo(u, n) ==
    IF n = 0 THEN 0
    ELSE TicketsHeldUpTo(u, n - 1)
         + ( IF bookings[n].user_id = u /\ bookings[n].status \in ActiveStatuses
             THEN Len(bookings[n].tickets) ELSE 0 )

TicketsHeld(u) == TicketsHeldUpTo(u, DeepRequests)

\* C5: a reservation request is rejected with quota-exceeded whenever the
\* tickets held in the user's active bookings plus the requested quantity
\* exceed 6 (stated for the requests whose count was read from the store and
\* is still the count of the stored bookings when the check is made).
C5_QuotaCountsTickets ==
    [][ \A p \in Procs :
          ( /\ Acted(p) /\ proc[p].pc = "r_count_set"
            /\ proc[p].count = ActiveBookingsCount(proc[p].user)
            /\ TicketsHeld(proc[p].user) + TotalRequested(proc[p].reqs) > 6 )
          => proc'[p].pc = "done" /\ proc'[p].outcome = "quota_exceeded" ]_vars

\* C6: within one cache window of a user's count, at most one request is
\* admitted that the count of the stored bookings would have rejected.
C6_AtMostOneStaleAdmission == \A u \in Users : staleAdmits[u] <= 1

\* No cancel and no confirm of booking b is in progress.
Settled(b) ==
    \A p \in Procs :
        proc[p].op \in { "cancel", "confirm" } /\ proc[p].bid = b
            => proc[p].pc \in { "idle", "done" }

\* C2: no ticket id is contained in two different bookings whose status is
\* reserved, processing or confirmed (stated for the pairs of bookings on
\* which no cancel and no confirm is in progress).
C2_NoTicketInTwoActiveBookings ==
    \A a, b \in BookingIds :
        ( /\ a # b /\ Settled(a) /\ Settled(b)
          /\ bookings[a].status \in { "reserved", "processing", "confirmed" }
          /\ bookings[b].status \in { "reserved", "processing", "confirmed" } )
        => HeldByBooking(a) \cap HeldByBooking(b) = {}

\* get_booking_by_id returns to its caller in this step of p.
Returns(p) == Acted(p) /\ proc[p].pc \in { "g_cache", "g_db", "g_set" }
                       /\ proc'[p].pc \notin { "g_db", "g_set" }

\* The booking p names is stored, is owned by p's user and has this status.
OwnedWithStatus(p, statuses) ==
    /\ proc[p].bid \in BookingIds
    /\ bookings[proc[p].bid].user_id = proc[p].user
    /\ bookings[proc[p].bid].status \in statuses

\* A confirm that is cancelling its booking because the reservation expired.
ExpiringConfirm(p) ==
    /\ proc[p].op = "confirm"
    /\ proc[p].ret = "ci_loaded" \/ proc[p].newStatus = "cancelled"

C8_StatusTransitions ==
    [][ \A b \in BookingIds :
          bookings'[b].status # bookings[b].status =>
              << bookings[b].status, bookings'[b].status >> \in
                  { << "none", "reserved" >>, << "reserved", "processing" >>,
                    << "reserved", "cancelled" >>, << "processing", "cancelled" >>,
                    << "processing", "confirmed" >> } ]_vars

\* C9: a cancel that reads its booking (from the cache or from the store)
\* when the stored status of the booking is cancelled, expired or confirmed
\* ends there with a conflict, and changes no ticket and no booking.
C9_CancelGuard ==
    [][ \A p \in Procs :
          ( /\ Acted(p) /\ proc[p].op = "cancel" /\ proc[p].ret = "c_check"
            /\ \/ proc[p].pc = "g_cache" /\ bookingCache[proc[p].bid] # NoBooking
               \/ proc[p].pc = "g_db"
            /\ OwnedWithStatus(p, { "cancelled", "expired", "confirmed" }) )
          => /\ proc'[p].pc = "done"
             /\ proc'[p].outcome \in { "already_cancelled", "cannot_cancel_confirmed" }
             /\ tickets' = tickets /\ bookings' = bookings ]_vars

\* C10: a cancel by the owner of a reserved or processing booking goes on to
\* release the tickets, and when it ends every ticket listed in the booking
\* is available with no reserved_by and no reserved_until, and the stored
\* status of the booking is cancelled.
C10_CancelReleasesAll ==
    [][ \A p \in Procs :
          /\ ( /\ Returns(p) /\ proc[p].ret = "c_check"
               /\ OwnedWithStatus(p, { "reserved", "processing" }) )
             => proc'[p].pc # "done"
          /\ ( Acted(p) /\ proc[p].op = "cancel" /\ proc'[p].pc = "done"
                        /\ proc[p].pc = "ci_delcount" )
             => /\ proc'[p].outcome = "cancelled"
                /\ bookings'[proc[p].bid].status = "cancelled"
                /\ \A t \in HeldByBooking(proc[p].bid) :
                      /\ tickets'[t].status = "available"
                      /\ tickets'[t].reserved_by = NoUser
                      /\ tickets'[t].reserved_until = NoTime ]_vars

\* C10 witness: a cancel has ended with success on a booking of three
\* tickets that had been handed to payment.
C10_CancelEnded ==
    \E p \in Procs, b \in BookingIds :
        /\ proc[p].pc = "done" /\ proc[p].op = "cancel" /\ proc[p].outcome = "cancelled"
        /\ Len(bookings[b].tickets) = 3 /\ bookings[b].status = "cancelled"
        /\ paymentQueue # <<>>

\* C11: once a cancellation of a booking has completed (the stored status is
\* cancelled and no cancel of it is in progress), a read of the booking that
\* finds it in the cache is given status cancelled.  (A read that misses the
\* cache reads the store.)
C11_ReadAfterCancel ==
    [][ \A p \in Procs :
          ( /\ Acted(p) /\ proc[p].op = "read" /\ proc[p].pc = "g_cache"
            /\ bookingCache[proc[p].bid] # NoBooking
            /\ bookings[proc[p].bid].status = "cancelled"
            /\ Settled(proc[p].bid) )
          => bookingCache[proc[p].bid].status = "cancelled" ]_vars

\* A confirm that has passed its checks and is handing the booking to payment.
ProceedingConfirm(p) == proc[p].op = "confirm" /\ proc[p].newStatus = "processing"

\* The process_payment messages sent for booking b.
PaymentsFor(queue, b) ==
    Len(SelectSeq(queue, LAMBDA m : m.action = "process_payment" /\ m.booking_id = b))

\* C12: a confirm by the owner of a reserved booking, made when now is not
\* past reserved_until, goes on to store status processing (not confirmed),
\* changes no ticket, and ends by sending one process_payment message that
\* carries the booking's total amount, the only one sent for the booking.
C12_ConfirmHandsOff ==
    [][ \A p \in Procs :
          /\ ( /\ Returns(p) /\ proc[p].ret = "f_check"
               /\ OwnedWithStatus(p, { "reserved" })
               /\ now <= bookings[proc[p].bid].reserved_until[1] * 60
                            + bookings[proc[p].bid].reserved_until[2] )
             => ProceedingConfirm(p)' /\ proc'[p].pc = "u_write"
          /\ ( Acted(p) /\ ProceedingConfirm(p) ) =>
                /\ tickets' = tickets
                /\ proc[p].pc = "u_write" => bookings'[proc[p].bid].status = "processing"
                /\ proc[p].pc # "u_write" => bookings' = bookings
                /\ IF proc'[p].pc = "done"
                   THEN /\ proc'[p].outcome = "processing"
                        /\ Len(paymentQueue') = Len(paymentQueue) + 1
                        /\ PaymentsFor(paymentQueue', proc[p].bid) = 1
                        /\ paymentQueue'[Len(paymentQueue')].booking_id = proc[p].bid
                        /\ paymentQueue'[Len(paymentQueue')].action = "process_payment"
                        /\ paymentQueue'[Len(paymentQueue')].amount
                              = bookings[proc[p].bid].total_amount
                   ELSE paymentQueue' = paymentQueue ]_vars

\* C12 witness: a confirm has ended with the booking handed to payment, and
\* the payment has not completed.
C12_ConfirmHandedOff ==
    \E p \in Procs, b \in BookingIds :
        /\ proc[p].pc = "done" /\ proc[p].op = "confirm" /\ proc[p].outcome = "processing"
        /\ bookings[b].status = "processing" /\ PaymentsFor(paymentQueue, b) = 1

\* The booking get_booking_by_id returns in a step in which it returns.
Returned(p) ==
    IF proc[p].pc = "g_cache" THEN bookingCache[proc[p].bid]
    ELSE IF proc[p].pc = "g_db" THEN bookings[proc[p].bid]
    ELSE proc[p].booking

\* A confirm that is loading its booking, before its checks.
LoadingConfirm(p) ==
    /\ proc[p].op = "confirm" /\ proc[p].ret = "f_check"
    /\ proc[p].pc \in { "g_cache", "g_db", "g_set" }

\* C13: a confirm whose booking is absent, belongs to another user or is not
\* reserved fails (not found, unauthorized, invalid status) at its checks; a
\* confirm fails in one of these ways only there, and up to there it has
\* changed no booking record, no ticket record and not the payment queue.
C13_FailedConfirmChangesNothing ==
    [][ \A p \in Procs :
          /\ ( Acted(p) /\ LoadingConfirm(p) ) =>
                /\ bookings' = bookings /\ tickets' = tickets
                /\ paymentQueue' = paymentQueue
          /\ ( Returns(p) /\ LoadingConfirm(p) ) =>
                LET booking == Returned(p) IN
                /\ booking = NoBooking =>
                      proc'[p].pc = "done" /\ proc'[p].outcome = "not_found"
                /\ ( booking # NoBooking /\ booking.user_id # proc[p].user ) =>
                      proc'[p].pc = "done" /\ proc'[p].outcome = "unauthorized"
                /\ ( /\ booking # NoBooking /\ booking.user_id = proc[p].user
                     /\ booking.status # "reserved" ) =>
                      proc'[p].pc = "done" /\ proc'[p].outcome = "invalid_status"
          /\ ( /\ Acted(p) /\ proc[p].op = "confirm" /\ proc'[p].pc = "done"
               /\ proc'[p].outcome \in { "not_found", "unauthorized", "invalid_status" } )
             => LoadingConfirm(p) ]_vars

\* C13 witness: a confirm has failed on a booking of its user that is no
\* longer reserved, and nothing has been sent to payment.
C13_ConfirmFailed ==
    \E p \in Procs, b \in BookingIds :
        /\ proc[p].pc = "done" /\ proc[p].op = "confirm"
        /\ proc[p].outcome = "invalid_status"
        /\ bookings[b].status = "cancelled" /\ paymentQueue = <<>>

\* C14: a handler instance that is serving no reservation request (its last
\* request has returned, with success, ticket-unavailable or a fault) holds
\* the lock of no event.
C14_NoLockAfterReturn ==
    \A p \in Procs : Idling(p) => \A k \in LockKeys : lock[k] # p

\* C14 witness: requests have returned with a fault raised inside the
\* critical section and with ticket-unavailable, and the lock is free.
C14_ReturnedOnEveryPath ==
    /\ \E p \in Procs : proc[p].pc = "done" /\ proc[p].outcome = "internal_error"
    /\ \E p \in Procs : proc[p].pc = "done" /\ proc[p].outcome = "ticket_unavailable"
    /\ \A k \in LockKeys : lock[k] = NoProc

\* The requests between ticket selection and booking creation for event e.
Selecting(e) ==
    { p \in Procs : /\ proc[p].event = e
                    /\ proc[p].pc \in { "r_query", "r_write", "r_rollback",
                                        "r_except", "r_put" } }

\* C15: while no lease runs out, at most one reservation request per event
\* is between ticket selection and booking creation.
C15_OneSelectorPerEvent ==
    \A e \in Events : Cardinality(Selecting(e)) <= 1

\* C15 witness: a request of one user is selecting tickets of an event while
\* a request of another user for the same event waits for the lock.
C15_OneInsideOneWaiting ==
    \E p, q \in Procs :
        /\ proc[p].pc = "r_write" /\ proc[q].pc = "r_lock"
        /\ proc[p].event = proc[q].event /\ proc[p].user # proc[q].user

\* A reservation request that has not yet entered the critical section.
BeforeLock(p) ==
    proc[p].pc \in { "r_count", "r_count_query", "r_count_set", "r_event", "r_lock" }

\* C16: a reservation request served by an instance that keeps running
\* returns, whatever the holder of the lock does; up to the lock it changes
\* no ticket and no booking, and when it leaves the wait for the lock without
\* the lock it fails, having changed no ticket and created no booking.
C16_ReserveTerminates ==
    /\ (proc["p2"].pc \notin { "idle", "done" }) ~> (proc["p2"].pc = "done")
    /\ [][ \A p \in Procs :
             ( Acted(p) /\ BeforeLock(p) ) =>
                /\ tickets' = tickets /\ bookings' = bookings
                /\ ( proc[p].pc = "r_lock" /\ proc'[p].pc # "r_query" ) =>
                      /\ proc'[p].pc = "done"
                      /\ proc'[p].outcome = "lock_timeout" ]_vars

\* C16 witness: a request has failed on the acquisition timeout while the
\* request holding the lock has reserved a ticket and is still inside.
C16_TimedOutWhileHeld ==
    \E p, q \in Procs :
        /\ proc[p].pc = "done" /\ proc[p].outcome = "lock_timeout"
        /\ proc[q].pc = "r_write" /\ proc[q].reserved_tickets # <<>>
        /\ lock[proc[q].event] = q

\* The handler instances whose request has returned with this outcome.
Ended(outcome) == { p \in Procs : proc[p].pc = "done" /\ proc[p].outcome = outcome }

\* C17: when concurrent requests of distinct users for one ticket each of a
\* tier that has K available tickets, more requests than K, have all returned,
\* K of them have succeeded, the others have failed with ticket-unavailable,
\* and no ticket is listed in two bookings.  (Here K = 1, the vip ticket, and
\* two requests.)
C17_ExactlyKSucceed ==
    ( \A p \in Procs : proc[p].pc = "done" /\ proc[p].op = "reserve" ) =>
        /\ Cardinality(Ended("created"))
              = Cardinality({ t \in Tickets : TicketTier(t) = "vip" })
        /\ Ended("created") \cup Ended("ticket_unavailable") = Procs
        /\ \A a, b \in BookingIds : a # b => HeldByBooking(a) \cap HeldByBooking(b) = {}

\* The class of a failure outcome.
Classification(outcome) ==
    IF outcome = "not_found" THEN "not-found"
    ELSE IF outcome = "quota_exceeded" THEN "quota-exceeded"
    ELSE IF outcome \in { "event_unavailable", "ticket_unavailable" }
         THEN "resource-unavailable"
    ELSE IF outcome \in { "invalid_status", "already_cancelled",
                          "cannot_cancel_confirmed", "reservation_expired" }
         THEN "conflict"
    ELSE "other"

\* The request of instance p has returned with a classified failure.
Failed(p) ==
    proc[p].pc = "done" /\ Classification(proc[p].outcome) # "other"

\* C18: two requests that have failed with outcomes of different classes
\* (not-found, conflict, quota-exceeded, resource-unavailable) have been
\* answered with different status codes.
C18_ClassesDistinguishable ==
    \A p, q \in Procs :
        ( /\ Failed(p) /\ Failed(q)
          /\ Classification(proc[p].outcome) # Classification(proc[q].outcome) )
        => StatusCode(proc[p].op, proc[p].outcome) # StatusCode(proc[q].op, proc[q].outcome)

C20_RollbackOnlyOwnTickets ==
    [][ \A p \in Procs :
          ( Acted(p) /\ proc[p].pc \in { "r_rollback", "r_except" } ) =>
             \A t \in Tickets :
                tickets'[t] # tickets[t] => tickets[t].reserved_by = proc[p].user ]_vars

\* C20 witness: the rollback of a request has been made while a ticket the
\* request lists is reserved by another user, and that ticket is not
\* available.
C20_RolledBackPastForeignTicket ==
    \E p \in Procs :
        /\ proc[p].pc = "r_unlock" /\ proc[p].reserved_tickets # <<>>
        /\ \E t \in HeldByRequest(p) :
              /\ tickets[t].status = "reserved"
              /\ tickets[t].reserved_by \notin { proc[p].user, NoUser }

\* The code that follows get_booking_by_id when it returns this booking: where
\* the request goes next, or how it ends.
Continuation(pr, booking) ==
    [ AfterGet([ pr EXCEPT !.booking = booking ]) EXCEPT !.booking = NoBooking ]

\* C21: in requests served one at a time, a value taken from the cache
\* leads the request where the value read from the store at that moment
\* would have led it, so that the request ends and leaves the store as it
\* does with a cache in which every lookup misses: the cached count passes
\* or fails the quota test as the stored count does, the cached event has
\* the stored status, and the cached booking differs from the stored one at
\* most in a status that makes no difference to what follows.
C21_CacheIsOptimization ==
    [][ \A p \in Procs :
          /\ ( Acted(p) /\ proc[p].pc = "r_count" /\ countCache[proc[p].user] # NoCount ) =>
                AfterCount(proc[p], countCache[proc[p].user][1])
                   = AfterCount(proc[p], ActiveBookingsCount(proc[p].user))
          /\ ( Acted(p) /\ proc[p].pc = "r_event" /\ eventCache[proc[p].event] # NoEvent ) =>
                eventCache[proc[p].event][1] = events[proc[p].event]
          /\ ( Acted(p) /\ proc[p].pc = "g_cache" /\ bookingCache[proc[p].bid] # NoBooking ) =>
                /\ WithStatus(bookingCache[proc[p].bid], "none")
                      = WithStatus(bookings[proc[p].bid], "none")
                /\ Continuation(proc[p], bookingCache[proc[p].bid])
                      = Continuation(proc[p], bookings[proc[p].bid]) ]_vars

\* C22: every ticket carries reserved_by and reserved_until exactly when its
\* status is reserved.
C22_HolderIffReserved ==
    \A t \in Tickets :
        /\ tickets[t].status = "reserved" <=> tickets[t].reserved_by # NoUser
        /\ tickets[t].status = "reserved" <=> tickets[t].reserved_until # NoTime

\* C22 witness: the tickets of a booking have been reserved, then released
\* by its cancellation, and reserved again for a later booking.
C22_ReleasedAndReservedAgain ==
    \E a, b \in BookingIds :
        /\ a < b /\ bookings[a].status = "cancelled" /\ bookings[b].status = "reserved"
        /\ HeldByBooking(a) \cap HeldByBooking(b) # {}
        /\ \A t \in HeldByBooking(b) : tickets[t].status = "reserved"

\* The fields of a booking that are set when it is created.
Frozen(booking) ==
    << booking.booking_id, booking.user_id, booking.event_id, booking.tickets,
       booking.total_amount, booking.reserved_until, booking.ttl >>

CacheAgrees(cache, store) ==
    \A b \in BookingIds : cache[b] # NoBooking => Frozen(cache[b]) = Frozen(store[b])

\* C23: no step changes the ticket snapshots, total amount, owner, event id
\* or reserved_until of a stored booking, and the cached copy of a booking
\* differs from the stored one in no field but the status.
C23_BookingFrozen ==
    [][ /\ \A b \in BookingIds :
              bookings[b] # NoBooking => Frozen(bookings'[b]) = Frozen(bookings[b])
        /\ CacheAgrees(bookingCache, bookings)
        /\ CacheAgrees(bookingCache', bookings') ]_vars

\* C23 witness: a booking with tickets has been confirmed or cancelled, and
\* a copy of it is in the cache.
C23_StatusChangedAndCached ==
    \E b \in BookingIds :
        /\ bookings[b].status \in { "processing", "cancelled" }
        /\ bookings[b].tickets # <<>>
        /\ bookingCache[b] # NoBooking

\* No cancellation of a booking of user u is in progress.
NoCancelInProgress(u) ==
    \A q \in Procs :
        ( proc[q].op \in { "cancel", "confirm" } /\ ~Idling(q) ) =>
            bookings[proc[q].bid].user_id # u

\* C24: a quota check that begins when the cancellations of the user's
\* bookings have completed counts none of the cancelled bookings: the count
\* it uses is at most the number of the user's stored bookings that are
\* reserved, processing or confirmed.
C24_CancelledNotCounted ==
    [][ \A p \in Procs :
          ( /\ Acted(p) /\ proc[p].pc = "r_count"
            /\ NoCancelInProgress(proc[p].user)
            /\ \E b \in BookingIds : /\ bookings[b].user_id = proc[p].user
                                     /\ bookings[b].status = "cancelled" )
          => \/ proc'[p].pc = "r_count_query"
             \/ EnforcerReturns(p)[1] <= ActiveBookingsCount(proc[p].user) ]_vars

\* A request whose candidate query came back short while it had reserved
\* nothing, on its way out.
FailingAtFirstTier(p) ==
    /\ proc[p].pc \in { "r_except", "r_unlock" }
    /\ proc[p].reserved_tickets = <<>>
    /\ proc[p].err = "ticket_unavailable"

\* C25: the candidate query of the first tier of a request either returns
\* at least the requested quantity or fails the request; the request that
\* it fails changes no ticket and no booking from there on and ends with
\* ticket-unavailable.
C25_ShortFirstTierFailsClean ==
    [][ \A p \in Procs :
          /\ ( Acted(p) /\ proc[p].pc = "r_query" /\ proc[p].tierIdx = 1 ) =>
                /\ tickets' = tickets /\ bookings' = bookings
                /\ \/ /\ proc'[p].pc = "r_write"
                      /\ Len(proc'[p].candidates) >= proc[p].reqs[1].quantity
                   \/ FailingAtFirstTier(p)'
          /\ ( Acted(p) /\ FailingAtFirstTier(p) ) =>
                /\ tickets' = tickets /\ bookings' = bookings
                /\ \/ FailingAtFirstTier(p)'
                   \/ /\ proc'[p].pc = "done"
                      /\ proc'[p].outcome = "ticket_unavailable"
                      /\ Raised("reserve", proc'[p].outcome) = "TicketNotAvailableError" ]_vars

\* C25 witness: a request has ended with ticket-unavailable while every
\* ticket is available and there is no booking.
C25_FailedWithoutWrite ==
    /\ \E p \in Procs : proc[p].pc = "done" /\ proc[p].outcome = "ticket_unavailable"
    /\ \A t \in Tickets : tickets[t] = AvailableTicket
    /\ \A b \in BookingIds : bookings[b] = NoBooking

\* The available tickets of a tier of an event.
AvailableOfTier(e, tier) ==
    { t \in Tickets : /\ TicketEvent(t) = e /\ TicketTier(t) = tier
                      /\ tickets[t].status = "available" }

\* C26: with no other request in progress, the candidate query of a request
\* for quantity q of a tier does not fail the request when at least q
\* tickets of that tier of the event are available, however many available
\* tickets of other tiers the event has.
C26_LimitHidesNoTicket ==
    [][ \A p \in Procs :
          ( /\ Acted(p) /\ proc[p].pc = "r_query"
            /\ \A q \in Procs \ { p } : Idling(q)
            /\ LET req == proc[p].reqs[proc[p].tierIdx] IN
               Cardinality(AvailableOfTier(proc[p].event, req.tier)) >= req.quantity )
          => proc'[p].pc = "r_write" ]_vars

\* C27: a reservation request that fails after it has reserved a ticket
\* ends with the ticket-unavailable error it failed with: the rollback
\* leaves that error in place, and the caller is answered with it and not
\* with an internal error.
C27_PrimaryErrorSurfaces ==
    [][ \A p \in Procs :
          /\ ( /\ Acted(p) /\ proc[p].pc \in { "r_rollback", "r_except" }
               /\ proc[p].reserved_tickets # <<>> /\ proc[p].err = "ticket_unavailable" )
             => proc'[p].err = "ticket_unavailable"
          /\ ( Acted(p) /\ proc[p].pc = "r_unlock" /\ proc[p].reserved_tickets # <<>> )
             => /\ proc'[p].outcome = "ticket_unavailable"
                /\ StatusCode("reserve", proc'[p].outcome) # 500 ]_vars

\* A ticket left reserved that no booking lists and no request in progress
\* has reserved, whose reserved_until has passed.
OrphanedAndExpired(t) ==
    /\ tickets[t].status = "reserved"
    /\ \A b \in BookingIds : t \notin HeldByBooking(b)
    /\ \A p \in Procs : t \notin HeldByRequest(p)
    /\ now > fromisoformat(tickets[t].reserved_until)

\* C28: a ticket left reserved that belongs to no booking is available
\* again at some time after its reserved_until has passed, while confirm,
\* cancel and reserve requests keep being served.
C28_OrphanRecovered ==
    \A t \in Tickets : OrphanedAndExpired(t) ~> ( tickets[t].status = "available" )

\* No step makes available a ticket that is reserved and listed in no booking.
OrphanStaysReserved ==
    [][ \A t \in Tickets :
          ( /\ tickets[t].status = "reserved"
            /\ \A b \in BookingIds : t \notin HeldByBooking(b)
            /\ \A p \in Procs : proc[p].pc = "r_put" => t \notin HeldByRequest(p) )
          => tickets'[t].status = "reserved" ]_vars

\* C29: a reservation request for an event whose stored status is not
\* active (or that does not exist) changes no ticket, no booking and no
\* lock, never asks for the lock, and ends with event-not-available.
C29_InactiveEventRejected ==
    [][ \A p \in Procs :
          ( /\ Acted(p) /\ proc[p].op = "reserve" /\ proc[p].pc # "done"
            /\ events[proc[p].event] # "active" )
          => /\ tickets' = tickets /\ bookings' = bookings /\ lock' = lock
             /\ \/ proc'[p].pc \in { "r_count_query", "r_count_set", "r_event" }
                \/ /\ proc'[p].pc = "done"
                   /\ proc'[p].outcome = "event_unavailable" ]_vars

\* The quantity a request asks of a tier, and the sum of the prices of a
\* list of snapshots.
RECURSIVE RequestedOfTier(_, _)
RequestedOfTier(reqs, tier) ==
    IF reqs = <<>> THEN 0
    ELSE ( IF Head(reqs).tier = tier THEN Head(reqs).quantity ELSE 0 )
         + RequestedOfTier(Tail(reqs), tier)

RECURSIVE SumOfPrices(_)
SumOfPrices(snapshots) ==
    IF snapshots = <<>> THEN 0 ELSE Head(snapshots).price + SumOfPrices(Tail(snapshots))

\* C30: the booking a reservation request persists lists, for each tier,
\* as many tickets of that tier as the request asks, no ticket twice, each
\* of them reserved by the booking's owner at that moment, and its total
\* amount is the sum of the listed prices.
C30_BookingMatchesRequest ==
    [][ \A p \in Procs :
          ( Acted(p) /\ proc[p].pc = "r_put" ) =>
             LET booking == bookings'[proc'[p].bid] IN
             /\ bookings[proc'[p].bid] = NoBooking
             /\ booking.user_id = proc[p].user
             /\ \A tier \in { "vip", "standard" } :
                   Cardinality({ k \in 1..Len(booking.tickets) :
                                   /\ booking.tickets[k].tier = tier
                                   /\ TicketTier(booking.tickets[k].ticket_id) = tier })
                      = RequestedOfTier(proc[p].reqs, tier)
             /\ Cardinality(TicketIds(booking.tickets)) = Len(booking.tickets)
             /\ \A t \in TicketIds(booking.tickets) :
                   /\ tickets'[t].status = "reserved"
                   /\ tickets'[t].reserved_by = booking.user_id
             /\ booking.total_amount = SumOfPrices(booking.tickets) ]_vars

\* C31: every ticket listed in a booking whose status is reserved,
\* processing or confirmed has status reserved (stated for the bookings on
\* which no cancel and no confirm is in progress).
C31_NoOversell ==
    \A b \in BookingIds :
        ( Settled(b) /\ bookings[b].status \in ActiveStatuses )
        => \A t \in HeldByBooking(b) : tickets[t].status = "reserved"

\* C32: a step of a request of user U changes the stored status of no
\* booking owned by another user; a step of a confirm or cancel of U changes
\* no ticket that is reserved by another user; and a cancel of a booking
\* owned by another user ends with unauthorized.
C32_CrossUserIsolation ==
    [][ \A p \in Procs :
          ( Acted(p) /\ ~Idling(p) ) =>
             /\ \A b \in BookingIds :
                   ( bookings[b] # NoBooking /\ bookings[b].user_id # proc[p].user )
                   => bookings'[b] = bookings[b]
             /\ proc[p].op \in { "cancel", "confirm" } =>
                   \A t \in Tickets :
                      ( /\ tickets[t].status = "reserved"
                        /\ tickets[t].reserved_by # proc[p].user )
                      => tickets'[t] = tickets[t]
             /\ ( /\ proc[p].op = "cancel" /\ proc'[p].pc = "done"
                  /\ bookings[proc[p].bid] # NoBooking
                  /\ bookings[proc[p].bid].user_id # proc[p].user )
                => proc'[p].outcome = "unauthorized" ]_vars

\* C33: when the write of the booking fails after the tickets were
\* reserved, no booking is stored for the request, the rollback that
\* follows leaves every ticket the request reserved available, and the
\* request does not end as created.
C33_FailedPersistReleases ==
    [][ \A p \in Procs :
          /\ ( Acted(p) /\ proc[p].pc = "r_put" /\ proc'[p].pc = "r_except" ) =>
                bookings' = bookings
          /\ ( Acted(p) /\ proc[p].pc = "r_except" /\ proc[p].err = "store_error" ) =>
                /\ bookings' = bookings
                /\ \A t \in HeldByRequest(p) : tickets'[t].status = "available"
          /\ ( Acted(p) /\ proc[p].pc = "r_unlock" /\ proc[p].reserved_tickets # <<>> ) =>
                /\ bookings' = bookings
                /\ proc'[p].outcome # "created" ]_vars

\* The request of p is inside the with block of the lock.
InCriticalSection(p) ==
    proc[p].pc \in { "r_query", "r_write", "r_rollback", "r_except", "r_put",
                     "r_cache", "r_send", "r_unlock" }

CancelPastHeldLock ==
    \E p, q \in Procs :
        /\ proc[p].op = "cancel" /\ proc[p].pc = "ci_delcount"
        /\ InCriticalSection(q) /\ lock[proc[q].event] = q
        /\ proc[q].event = proc[p].booking.event_id

\* ------------------------------------------------------------ C35
\* The message a request's booking would be announced with.
ReservationMessage(p) ==
    [ action |-> "process_reservation", booking_id |-> proc[p].bid,
      user_id |-> proc[p].user ]

PaymentMessage(p) ==
    [ action |-> "process_payment", booking_id |-> proc[p].bid,
      user_id |-> proc[p].user,
      amount |-> bookings[proc[p].bid].total_amount ]

\* C35: queue dispatch is tied to success and its failure is invisible. A
\* reservation sends only once its booking is stored: that step appends
\* exactly one process_reservation message, or nothing when the enqueue
\* fails, and in both cases the request goes on to end as created. A confirm
\* sends only after writing processing: that step appends exactly one
\* process_payment message, or nothing when the enqueue fails, and in both
\* cases the request ends with outcome processing. No other step of a
\* reserve, confirm or cancel appends to either queue, and no sending step
\* changes a booking or a ticket.
C35_QueueDispatch ==
    [][ \A p \in Procs : Acted(p) =>
          /\ ( proc[p].op = "reserve" /\ proc[p].pc = "r_send" ) =>
                /\ \/ bookingQueue' = Append(bookingQueue, ReservationMessage(p))
                   \/ bookingQueue' = bookingQueue
                /\ paymentQueue' = paymentQueue
                /\ bookings' = bookings /\ tickets' = tickets
                /\ proc'[p].pc = "r_unlock" /\ proc'[p].err = "none"
          /\ ( proc[p].op = "reserve" /\ proc[p].pc = "r_unlock"
               /\ proc[p].err = "none" ) => proc'[p].outcome = "created"
          /\ ( proc[p].op = "confirm" /\ proc[p].pc = "f_send" ) =>
                /\ \/ paymentQueue' = Append(paymentQueue, PaymentMessage(p))
                   \/ paymentQueue' = paymentQueue
                /\ bookingQueue' = bookingQueue
                /\ bookings' = bookings /\ tickets' = tickets
                /\ proc'[p].pc = "done" /\ proc'[p].outcome = "processing"
          /\ ( /\ proc[p].op \in { "reserve", "confirm", "cancel" }
               /\ proc[p].pc \notin { "r_send", "f_send" } ) =>
                bookingQueue' = bookingQueue /\ paymentQueue' = paymentQueue ]_vars

\* The same with the confirm's own outcome left open: what remains of C35
\* once the encoding of the amount is set aside.
QueueDispatchButOutcome ==
    [][ \A p \in Procs : Acted(p) =>
          /\ ( proc[p].op = "reserve" /\ proc[p].pc = "r_send" ) =>
                /\ \/ bookingQueue' = Append(bookingQueue, ReservationMessage(p))
                   \/ bookingQueue' = bookingQueue
                /\ paymentQueue' = paymentQueue
                /\ bookings' = bookings /\ tickets' = tickets
                /\ proc'[p].pc = "r_unlock" /\ proc'[p].err = "none"
          /\ ( proc[p].op = "confirm" /\ proc[p].pc = "f_send" ) =>
                /\ \/ paymentQueue' = Append(paymentQueue, PaymentMessage(p))
                   \/ paymentQueue' = paymentQueue
                /\ bookingQueue' = bookingQueue
                /\ bookings' = bookings /\ tickets' = tickets
          /\ ( /\ proc[p].op \in { "reserve", "confirm", "cancel" }
               /\ proc[p].pc \notin { "r_send", "f_send" } ) =>
                bookingQueue' = bookingQueue /\ paymentQueue' = paymentQueue ]_vars

\* A confirm has written processing and ended in an internal error, with no
\* payment message for its booking.
ConfirmRaisedAfterWrite ==
    \E p \in Procs, b \in BookingIds :
        /\ proc[p].pc = "done" /\ proc[p].op = "confirm"
        /\ proc[p].outcome = "internal_error"
        /\ bookings[b] # NoBooking /\ bookings[b].status = "processing"
        /\ PaymentsFor(paymentQueue, b) = 0

\* ------------------------------------------------------------ C36
\* C36: a booking that appears in the table has status reserved, a
\* reserved_until RESERVATION_TIMEOUT_MINUTES after the time of its creation
\* and a ttl RETENTION_SECONDS after its reserved_until (in seconds); no step
\* removes a booking or changes its reserved_until or its ttl.
C36_DeadlineAndRetention ==
    [][ \A b \in BookingIds :
          /\ ( bookings[b] = NoBooking /\ bookings'[b] # NoBooking ) =>
                /\ bookings'[b].status = "reserved"
                /\ fromisoformat(bookings'[b].reserved_until)
                      = now + RESERVATION_TIMEOUT_MINUTES
                /\ bookings'[b].ttl
                      = fromisoformat(bookings'[b].reserved_until) * 60
                        + RETENTION_SECONDS
          /\ bookings[b] # NoBooking =>
                /\ bookings'[b] # NoBooking
                /\ bookings'[b].reserved_until = bookings[b].reserved_until
                /\ bookings'[b].ttl = bookings[b].ttl ]_vars

\* C36 witness: a booking created after time 0 has left status reserved at
\* a later time, and still carries the deadline and the retention marker of
\* its creation.
C36_KeptPastStatusChange ==
    \E b \in BookingIds :
        /\ bookings[b] # NoBooking
        /\ bookings[b].status \in { "cancelled", "processing", "confirmed" }
        /\ fromisoformat(bookings[b].reserved_until) > RESERVATION_TIMEOUT_MINUTES
        /\ now > fromisoformat(bookings[b].reserved_until) - RESERVATION_TIMEOUT_MINUTES
        /\ bookings[b].ttl
              = fromisoformat(bookings[b].reserved_until) * 60 + RETENTION_SECONDS

====
